---- MODULE Spec2Model ----
(***************************************************************************)
(* Model of NetflixSession (resources/lib/services/nfsession/nfsession.py): *)
(* the login / cookie / session-data state machine, the path request       *)
(* engine and the perpetual (two round) path request.                      *)
(*                                                                         *)
(* A Python method is an operator from the machine record `m` (the session *)
(* object plus the disk stores it talks to) to the SET of its possible     *)
(* outcomes [m |-> machine afterwards, exc |-> exception or "none",        *)
(* val |-> returned value]: one outcome per answer of the environment      *)
(* (provider responses, cookie store I/O).  An action runs one whole       *)
(* handler and installs one of its outcomes.                               *)
(***************************************************************************)
EXTENDS Integers, Sequences, FiniteSets, TLC

VARIABLES
    phase,          \* "constructing" (inside __init__), "ready", "crashed"
    session_data,   \* self._session_data, a dict (function on its keys)
    guid,           \* header x-netflix.request.client.user.guid, or NoGuid
    cookies,        \* self.session.cookies, the transport's cookie jar
    store,          \* cookie store on disk: account hash -> saved jar
    creds,          \* stored credentials: an account's email, or NoCreds
    esn,            \* the esn g holds (g.set_esn), or NoEsn
    log,            \* events of the last call, in order
    op,             \* the last call: its name and arguments
    result,         \* the last call's outcome: [exc, val]
    prev,           \* history: what the calls before the last one did
    threads         \* host threads inside the session_data setter: their position

vars ==
    <<phase, session_data, guid, cookies, store, creds, esn, log, op, result, prev, threads>>

----------------------------------------------------------------------------
(* Bounds of the model *)
MaxProfileMap == 1

(* apipaths.MAX_PATH_REQUEST_SIZE, scaled down *)
MAX_PATH_REQUEST_SIZE == 1
MaxCount == MAX_PATH_REQUEST_SIZE + 2

Cookies == {"NetflixId"}
Esns == {"esn1"}
ProfileMaps == 1..MaxProfileMap
Guids == {"g1", "g2"}
Accounts == {"a1"}
NoCreds == "NoCreds"
NoGuid == "NoGuid"
NoEsn == "NoEsn"

----------------------------------------------------------------------------
(* Values *)
NoneV == [t |-> "None"]
TrueV == [t |-> "bool", b |-> TRUE]
FalseV == [t |-> "bool", b |-> FALSE]
EmptyDict == [k \in {} |-> TRUE]

Out(m, exc, val) == [m |-> m, exc |-> exc, val |-> val]
Return(m, val) == Out(m, "none", val)
Raise(m, exc) == Out(m, exc, NoneV)
Ev(m, e) == [m EXCEPT !.log = Append(@, e)]

URLS ==
    [login |-> [endpoint |-> "/login", is_api_call |-> FALSE],
     logout |-> [endpoint |-> "/SignOut", is_api_call |-> FALSE],
     shakti |-> [endpoint |-> "/pathEvaluator", is_api_call |-> TRUE],
     browse |-> [endpoint |-> "/browse", is_api_call |-> FALSE],
     profiles |-> [endpoint |-> "/profiles/manage", is_api_call |-> FALSE],
     activate_profile |-> [endpoint |-> "/profiles/switch", is_api_call |-> TRUE],
     adult_pin |-> [endpoint |-> "/pin/service", is_api_call |-> TRUE],
     metadata |-> [endpoint |-> "/metadata", is_api_call |-> TRUE],
     set_video_rating |-> [endpoint |-> "/setVideoRating", is_api_call |-> TRUE],
     update_my_list |-> [endpoint |-> "/playlistop", is_api_call |-> TRUE]]

(* A complete SessionData document, as the page extractor builds it *)
SessionDoc(g, p, e) ==
    [profiles |-> p, active_profile |-> g, user_data |-> [authURL |-> "authURL"],
     api_data |-> "api_data", esn |-> e]
SessionDocs == {SessionDoc(g, p, e) : g \in Guids, p \in ProfileMaps, e \in Esns}

(* Pages the provider serves at document endpoints: one no extractor      *)
(* recognises, the logged-out bootstrap page (user data with an authURL,   *)
(* no session), a page without authURL, and the logged-in page.            *)
Pages ==
    {[kind |-> "unrecognized"], [kind |-> "anonymous"], [kind |-> "noauth"]}
    \cup {[kind |-> "session", doc |-> d] : d \in SessionDocs}

(* website.extract_session_data / website.extract_userdata *)
extract_session_data(page) ==
    IF page.kind = "session" THEN [ok |-> TRUE, doc |-> page.doc] ELSE [ok |-> FALSE]
extract_userdata(page) ==
    IF page.kind = "session" THEN [ok |-> TRUE, doc |-> page.doc.user_data]
    ELSE IF page.kind = "anonymous" THEN [ok |-> TRUE, doc |-> [authURL |-> "authURL"]]
    ELSE IF page.kind = "noauth" THEN [ok |-> TRUE, doc |-> EmptyDict]
    ELSE [ok |-> FALSE]

(* The value subtree of a path response: `keys` is len(path_response),    *)
(* `count` what the length extractor of the response kind counts in it.    *)
PathValues ==
    {[keys |-> 0, count |-> 0]} \cup {[keys |-> 1, count |-> n] : n \in 0..MaxCount}

(* Decoded JSON envelopes of API responses *)
Envelopes(component) ==
    {EmptyDict, [status |-> "error", message |-> "msg"], [status |-> "success"]}
    \cup (IF component = "shakti"
          THEN {[value |-> v] : v \in PathValues}
          ELSE {[status |-> "success", value |-> [keys |-> 0, count |-> 0]]})

(* Response bodies: raw content of a document endpoint, or for an API call *)
(* an empty body, a body that is no JSON, or an envelope.                  *)
Bodies(component) ==
    IF URLS[component].is_api_call
    THEN {[raw |-> "empty"], [raw |-> "badjson"]}
         \cup {[raw |-> "json", json |-> e] : e \in Envelopes(component)}
    ELSE {[raw |-> "page", page |-> p] : p \in Pages}

(* What the transport can get back: no response at all, a non-2xx one, or  *)
(* a 2xx one; every response may carry Set-Cookie (ck).                    *)
Responses(component) ==
    {[st |-> "fail"]}
    \cup {[st |-> "http", ck |-> c] : c \in SUBSET Cookies}
    \cup {[st |-> "ok", ck |-> c, body |-> b] : c \in SUBSET Cookies, b \in Bodies(component)}

----------------------------------------------------------------------------
(* account_hash: urlsafe_b64encode of the stored email *)
account_hash(email) == <<"b64", email>>

(* auth_url property: session_data['user_data']['authURL'] *)
SessionKeys == {"profiles", "active_profile", "user_data", "api_data", "esn"}
HasAuthURL(sd) == "user_data" \in DOMAIN sd /\ "authURL" \in DOMAIN sd.user_data
(* mutant: auth_url demanding a complete SessionData *)
auth_url_needs_all_keys(m) ==
    IF HasAuthURL(m.session_data) /\ SessionKeys \subseteq DOMAIN m.session_data
    THEN Return(m, [t |-> "str", s |-> m.session_data.user_data.authURL])
    ELSE Raise(m, "InvalidAuthURLError")

auth_url(m) ==
    IF HasAuthURL(m.session_data)
    THEN Return(m, [t |-> "str", s |-> m.session_data.user_data.authURL])
    ELSE Raise(m, "InvalidAuthURLError")

(* _raise_api_error *)
_raise_api_error(m, decoded_response) ==
    IF (IF "status" \in DOMAIN decoded_response THEN decoded_response.status ELSE "success") = "error"
    THEN Out(m, "APIError",
             [t |-> "message",
              message |-> IF "message" \in DOMAIN decoded_response
                          THEN decoded_response.message ELSE "None"])
    ELSE Return(m, [t |-> "json", json |-> decoded_response])

(* _request, from the response on: cookies of the response go to the jar,  *)
(* raise_for_status, then the content or the unwrapped envelope.           *)
_response(m, component, r) ==
    IF r.st = "fail" THEN Raise(m, "ConnectionError")
    ELSE LET m1 == [m EXCEPT !.cookies = @ \cup r.ck] IN
        IF r.st = "http" THEN Raise(m1, "HTTPError")
        ELSE IF ~URLS[component].is_api_call THEN Return(m1, [t |-> "content", page |-> r.body.page])
        ELSE IF r.body.raw = "empty" THEN _raise_api_error(m1, EmptyDict)
        ELSE IF r.body.raw = "badjson" THEN Raise(m1, "ValueError")
        ELSE _raise_api_error(m1, r.body.json)

AuthInjected == {"set_video_rating", "update_my_list", "adult_pin"}

(* _request (with _prepare_request_properties) *)
_request(m, verb, component, data) ==
    IF URLS[component].is_api_call /\ "api_data" \notin DOMAIN m.session_data
    THEN {Raise(m, "KeyError")}
    ELSE IF component \in AuthInjected /\ auth_url(m).exc # "none"
    THEN {auth_url(m)}
    ELSE LET m1 == Ev(m, [ev |-> verb, c |-> component, data |-> data]) IN
        {_response(Ev(m1, [ev |-> "response", c |-> component, r |-> r]), component, r)
         : r \in Responses(component)}

_get(m, component, data) == _request(m, "GET", component, data)
_post(m, component, data) == _request(m, "POST", component, data)

----------------------------------------------------------------------------
(* Session state machine *)
NoData == [none |-> TRUE]
Put(d, k, v) == [x \in DOMAIN d \cup {k} |-> IF x = k THEN v ELSE d[x]]
Drop(d, k) == [x \in DOMAIN d \ {k} |-> d[x]]

(* _update_esn: g.set_esn stores the esn and tells whether it changed *)
_update_esn(m, new_esn) ==
    IF new_esn # m.esn
    THEN Ev([m EXCEPT !.esn = new_esn], [ev |-> "ESN_CHANGED", esn |-> new_esn])
    ELSE m

(* cookies.save(self.account_hash, self.session.cookies): the hash needs   *)
(* stored credentials, and writing the jar to disk can fail.               *)
cookies_save(m) ==
    IF m.creds = NoCreds THEN {Raise(m, "MissingCredentialsError")}
    ELSE {Raise(Ev(m, [ev |-> "save_cookies", ok |-> FALSE]), "IOError"),
          Return(Ev([m EXCEPT !.store = Put(@, account_hash(m.creds), m.cookies)],
                    [ev |-> "save_cookies", ok |-> TRUE]), NoneV)}

(* mutant: the setter never assigns self._session_data *)
session_data_setter_no_store(m, new_session_data) ==
    IF "active_profile" \notin DOMAIN new_session_data THEN {Raise(m, "KeyError")}
    ELSE {IF s.exc # "none" THEN s ELSE Return(_update_esn(s.m, new_session_data.esn), NoneV)
          : s \in cookies_save([m EXCEPT !.guid = new_session_data.active_profile])}

(* session_data setter: four statements, each of which can raise *)
session_data_setter(m, new_session_data) ==
    LET m1 == [m EXCEPT !.session_data = new_session_data] IN
    IF "active_profile" \notin DOMAIN new_session_data THEN {Raise(m1, "KeyError")}
    ELSE LET m2 == [m1 EXCEPT !.guid = new_session_data.active_profile] IN
        UNION {IF s.exc # "none" THEN {s}
               ELSE IF "esn" \notin DOMAIN s.m.session_data THEN {Raise(s.m, "KeyError")}
               ELSE {Return(_update_esn(s.m, s.m.session_data.esn), NoneV)}
               : s \in cookies_save(m2)}

(* _init_session: a fresh transport (no cookies, no guid header) and       *)
(* empty session data.                                                     *)
_init_session(m) ==
    [m EXCEPT !.session_data = EmptyDict, !.cookies = {}, !.guid = NoGuid]

(* _load_cookies: every exception of account_hash or cookies.load is       *)
(* caught and gives False; the jar is assigned only when load returned.    *)
_load_cookies(m) ==
    IF m.creds = NoCreds THEN {Return(m, FalseV)}
    ELSE {Return(Ev(m, [ev |-> "load_cookies", ok |-> FALSE]), FalseV)}
         \cup (IF account_hash(m.creds) \in DOMAIN m.store
               THEN {Return(Ev([m EXCEPT !.cookies = m.store[account_hash(m.creds)]],
                               [ev |-> "load_cookies", ok |-> TRUE]), TrueV)}
               ELSE {})

(* mutant: the except branch leaves the cookies in the jar *)
_refresh_failed_keeps_cookies(m) ==
    Return(Ev(m, [ev |-> "_refresh_session_data", at |-> "return", ret |-> FALSE]), FalseV)

(* _refresh_session_data, the except branch *)
_refresh_failed(m) ==
    Return(Ev([m EXCEPT !.cookies = {}],
              [ev |-> "_refresh_session_data", at |-> "return", ret |-> FALSE]), FalseV)

(* _refresh_session_data *)
_refresh_session_data(m) ==
    UNION {IF g.exc # "none" THEN {_refresh_failed(g.m)}
           ELSE IF ~extract_session_data(g.val.page).ok THEN {_refresh_failed(g.m)}
           ELSE {IF s.exc # "none" THEN _refresh_failed(s.m)
                 ELSE Return(Ev(s.m, [ev |-> "_refresh_session_data", at |-> "return",
                                      ret |-> TRUE]), TrueV)
                 : s \in session_data_setter(g.m, extract_session_data(g.val.page).doc)}
           : g \in _get(Ev(m, [ev |-> "_refresh_session_data", at |-> "call"]),
                        "profiles", NoData)}

(* mutant: the stored cookies are loaded and refreshed whatever the jar holds *)
_is_logged_in_eager(m) ==
    {Out(Ev(o.m, [ev |-> "_is_logged_in", ret |-> o.val.b]), o.exc, o.val)
     : o \in UNION {IF l.val.b THEN _refresh_session_data(l.m) ELSE {l}
                    : l \in _load_cookies(m)}}

(* _is_logged_in: cookies or (_load_cookies() and _refresh_session_data()) *)
_is_logged_in(m) ==
    {Out(Ev(o.m, [ev |-> "_is_logged_in", ret |-> o.val.b]), o.exc, o.val)
     : o \in IF m.cookies # {} THEN {Return(m, TrueV)}
             ELSE UNION {IF l.val.b THEN _refresh_session_data(l.m) ELSE {l}
                         : l \in _load_cookies(m)}}

(* _login, the except branch *)
_login_failed(m) == Raise([m EXCEPT !.cookies = {}], "LoginFailedError")

(* _login_payload: the fields that vary *)
_login_payload(email, auth) == [email |-> email, password |-> "password", authURL |-> auth]

(* _login *)
_login(m) ==
    UNION {IF g.exc # "none" THEN {_login_failed(g.m)}
           ELSE IF ~extract_userdata(g.val.page).ok THEN {_login_failed(g.m)}
           ELSE IF "authURL" \notin DOMAIN extract_userdata(g.val.page).doc THEN {_login_failed(g.m)}
           ELSE IF g.m.creds = NoCreds THEN {_login_failed(g.m)}
           ELSE UNION {IF p.exc # "none" THEN {_login_failed(p.m)}
                       ELSE IF ~extract_session_data(p.val.page).ok THEN {_login_failed(p.m)}
                       ELSE session_data_setter(p.m, extract_session_data(p.val.page).doc)
                       : p \in _post(g.m, "login",
                                     _login_payload(g.m.creds, extract_userdata(g.val.page).doc.authURL))}
           : g \in _get(m, "profiles", NoData)}

(* _prefetch_login *)
_prefetch_login(m) ==
    IF m.creds = NoCreds THEN {Return(m, NoneV)}
    ELSE UNION {IF l.val.b THEN {Return(l.m, NoneV)}
                ELSE {IF o.exc = "LoginFailedError" THEN Return(o.m, NoneV) ELSE o
                      : o \in _login(l.m)}
                : l \in _is_logged_in(m)}

(* logout *)
logout(m) ==
    IF m.creds = NoCreds THEN {Raise(m, "MissingCredentialsError")}
    ELSE LET m1 == Ev([m EXCEPT !.store = Drop(@, account_hash(m.creds))], [ev |-> "delete_cookies"]) IN
        {IF g.exc # "none" THEN g
         ELSE Return(_init_session(Ev([g.m EXCEPT !.creds = NoCreds], [ev |-> "purge_credentials"])), NoneV)
         : g \in _get(m1, "logout", NoData)}

(* mutant: the wrapped function runs whatever the login check says *)
needs_login_unchecked(m) == {Return(l.m, NoneV) : l \in _is_logged_in(m)}

(* needs_login: the login check, then the wrapped function.  An outcome    *)
(* with exc "none" is a passed check, after which the function runs.       *)
needs_login(m) ==
    {IF l.val.b THEN Return(l.m, NoneV) ELSE Raise(l.m, "NotLoggedInError")
     : l \in _is_logged_in(m)}

(* list_profiles *)
list_profiles(m) ==
    UNION {IF c.exc # "none" THEN {c}
           ELSE IF "profiles" \in DOMAIN c.m.session_data
           THEN {Return(c.m, [t |-> "profiles", p |-> c.m.session_data.profiles])}
           ELSE {Raise(c.m, "InvalidProfilesError")}
           : c \in needs_login(m)}

(* mutant: no early return for the profile that is already active *)
activate_profile_always_switches(m, g) ==
    IF "active_profile" \notin DOMAIN m.session_data THEN {Raise(m, "KeyError")}
    ELSE IF auth_url(m).exc # "none" THEN {auth_url(m)}
    ELSE UNION {IF r.exc # "none" THEN {r}
                ELSE {IF f.exc # "none" THEN f ELSE Return(f.m, TrueV)
                      : f \in _refresh_session_data(r.m)}
                : r \in _get(m, "activate_profile",
                             [switchProfileGuid |-> g, authURL |-> auth_url(m).val.s])}

(* activate_profile, after the login check *)
activate_profile_body(m, g) ==
    IF "active_profile" \notin DOMAIN m.session_data THEN {Raise(m, "KeyError")}
    ELSE IF g = m.session_data.active_profile THEN {Return(m, FalseV)}
    ELSE IF auth_url(m).exc # "none" THEN {auth_url(m)}
    ELSE UNION {IF r.exc # "none" THEN {r}
                ELSE {IF f.exc # "none" THEN f ELSE Return(f.m, TrueV)
                      : f \in _refresh_session_data(r.m)}
                : r \in _get(m, "activate_profile",
                             [switchProfileGuid |-> g, authURL |-> auth_url(m).val.s])}

activate_profile(m, g) ==
    UNION {IF c.exc # "none" THEN {c} ELSE activate_profile_body(c.m, g) : c \in needs_login(m)}

----------------------------------------------------------------------------
(* Path request engine *)
Seg(name) == [seg |-> name]
RANGE_SELECTOR == [seg |-> "_RANGE_SELECTOR"]

(* Caller path templates: one with the placeholder, one without *)
PathTemplates ==
    {<< <<Seg("lists"), RANGE_SELECTOR, Seg("summary")>> >>,
     << <<Seg("lists"), RANGE_SELECTOR, Seg("title")>>, <<Seg("profiles")>> >>}

(* path.index(RANGE_SELECTOR): the first position holding it, 0 if none *)
IndexOf(path, x) ==
    IF \E i \in DOMAIN path : path[i] = x
    THEN CHOOSE i \in DOMAIN path : path[i] = x /\ \A j \in 1..(i - 1) : path[j] # x
    ELSE 0

(* the loop of _set_range_selector: in every path the first placeholder   *)
(* becomes {'from': range_start, 'to': range_end}                          *)
Ranged(paths, range_start, range_end) ==
    [p \in DOMAIN paths |->
        [i \in DOMAIN paths[p] |->
            IF i = IndexOf(paths[p], RANGE_SELECTOR)
            THEN [from |-> range_start, to |-> range_end]
            ELSE paths[p][i]]]

(* mutant: no deep copy, the loop runs on the caller's list *)
_set_range_selector_in_place(paths, range_start, range_end) ==
    [paths |-> Ranged(paths, range_start, range_end),
     ranged_paths |-> Ranged(paths, range_start, range_end)]

(* _set_range_selector: the loop runs on a deep copy.  `paths` is the      *)
(* caller's list as the call leaves it, `ranged_paths` the returned list.  *)
_set_range_selector(paths, range_start, range_end) ==
    [paths |-> paths, ranged_paths |-> Ranged(paths, range_start, range_end)]

(* A call of _set_range_selector has returned: the caller's list now *)
Selected(m, sel) == Ev(m, [ev |-> "_set_range_selector", paths |-> sel.paths])

(* _path_request: the body needs auth_url before the POST, and indexes     *)
(* the decoded response with ['value'].                                    *)
_path_request(m, paths) ==
    IF auth_url(m).exc # "none" THEN {auth_url(m)}
    ELSE UNION {IF p.exc # "none" THEN {p}
                ELSE IF "value" \in DOMAIN p.val.json
                THEN {Return(p.m, [t |-> "value", v |-> p.val.json.value])}
                ELSE {Raise(p.m, "KeyError")}
                : p \in _post(m, "shakti", [paths |-> paths, authURL |-> auth_url(m).val.s])}

(* path_request *)
path_request(m, paths) ==
    UNION {IF c.exc # "none" THEN {c} ELSE _path_request(c.m, paths) : c \in needs_login(m)}

(* get / post *)
get(m, component) ==
    UNION {IF c.exc # "none" THEN {c} ELSE _get(c.m, component, NoData) : c \in needs_login(m)}
post(m, component) ==
    UNION {IF c.exc # "none" THEN {c} ELSE _post(c.m, component, NoData) : c \in needs_login(m)}

----------------------------------------------------------------------------
(* Perpetual path request *)
number_of_requests == 2
SELECTOR == "_perpetual_range_selector"

(* mutant: the 'genres' context gets the threshold of every other context *)
response_size_no_genres(context_name) == MAX_PATH_REQUEST_SIZE + 1

(* mutant: the threshold is the request size itself *)
response_size_is_request_size(context_name) ==
    IF context_name = "genres" THEN MAX_PATH_REQUEST_SIZE + 1 ELSE MAX_PATH_REQUEST_SIZE

(* response_size: request_size + 1, one more with the 'genres' context *)
response_size(context_name) ==
    IF context_name = "genres" THEN MAX_PATH_REQUEST_SIZE + 1 + 1 ELSE MAX_PATH_REQUEST_SIZE + 1

(* int(perpetual_range_start) if perpetual_range_start else 0; the         *)
(* argument is <<>> for None and <<n>> for a number.                       *)
range_start_of(perpetual_range_start) ==
    IF perpetual_range_start = <<>> \/ perpetual_range_start[1] = 0 THEN 0
    ELSE perpetual_range_start[1]

(* common.merge_dicts(path_response, merged_response): the items of the    *)
(* round are appended to the ones merged so far.                           *)
merge_dicts(path_response, merged_response) ==
    Put(merged_response, "rounds",
        (IF "rounds" \in DOMAIN merged_response THEN merged_response.rounds ELSE <<>>)
        \o <<path_response>>)

(* mutant: previous_start steps back by one round only *)
perpetual_finish_one_round(m, merged_response, start, context_name) ==
    IF start > 0
    THEN LET previous_start == start - response_size(context_name) IN
         Return(m, [t |-> "dict", d |-> Put(merged_response, SELECTOR,
                      Put(IF SELECTOR \in DOMAIN merged_response
                          THEN merged_response[SELECTOR] ELSE EmptyDict,
                          "previous_start", previous_start))])
    ELSE Return(m, [t |-> "dict", d |-> merged_response])

(* mutant: previous_start replaces the selector the rounds have set *)
perpetual_finish_drops_next(m, merged_response, start, context_name) ==
    IF start > 0
    THEN Return(m, [t |-> "dict", d |-> Put(merged_response, SELECTOR,
                      [previous_start |->
                          start - (response_size(context_name) * number_of_requests)])])
    ELSE Return(m, [t |-> "dict", d |-> merged_response])

(* mutant: nothing is attached to an accumulator that is empty *)
perpetual_finish_not_when_empty(m, merged_response, start, context_name) ==
    IF start > 0 /\ merged_response # EmptyDict
    THEN Return(m, [t |-> "dict", d |-> Put(merged_response, SELECTOR,
                      Put(IF SELECTOR \in DOMAIN merged_response
                          THEN merged_response[SELECTOR] ELSE EmptyDict,
                          "previous_start",
                          start - (response_size(context_name) * number_of_requests)))])
    ELSE Return(m, [t |-> "dict", d |-> merged_response])

(* lines 308-314: previous_start for a call that was a continuation *)
perpetual_finish(m, merged_response, start, context_name) ==
    IF start > 0
    THEN LET previous_start == start - (response_size(context_name) * number_of_requests) IN
         IF SELECTOR \in DOMAIN merged_response
         THEN Return(m, [t |-> "dict", d |-> Put(merged_response, SELECTOR,
                          Put(merged_response[SELECTOR], "previous_start", previous_start))])
         ELSE Return(m, [t |-> "dict", d |-> Put(merged_response, SELECTOR,
                                                 [previous_start |-> previous_start])])
    ELSE Return(m, [t |-> "dict", d |-> merged_response])

(* mutant: the second round counts the items merged so far *)
perpetual_round1_cumulative(m, paths, start, context_name, range_start, merged0) ==
    LET sel == _set_range_selector(paths, range_start, range_start + MAX_PATH_REQUEST_SIZE) IN
    UNION {IF r.exc # "none" THEN {r}
           ELSE IF r.val.v.keys = 0 THEN {perpetual_finish(r.m, merged0, start, context_name)}
           ELSE LET merged == merge_dicts(r.val.v, merged0) IN
                IF merged.rounds[1].count + r.val.v.count >= response_size(context_name)
                THEN {perpetual_finish(r.m,
                         Put(merged, SELECTOR,
                             [next_start |-> range_start + response_size(context_name)]),
                         start, context_name)}
                ELSE {perpetual_finish(r.m, merged, start, context_name)}
           : r \in _path_request(Selected(m, sel), sel.ranged_paths)}

(* the second round of the loop (n_req = 1) *)
perpetual_round1(m, paths, start, context_name, range_start, merged0) ==
    LET sel == _set_range_selector(paths, range_start, range_start + MAX_PATH_REQUEST_SIZE) IN
    UNION {IF r.exc # "none" THEN {r}
           ELSE IF r.val.v.keys = 0 THEN {perpetual_finish(r.m, merged0, start, context_name)}
           ELSE LET merged == merge_dicts(r.val.v, merged0) IN
                IF r.val.v.count >= response_size(context_name)
                THEN {perpetual_finish(r.m,
                         Put(merged, SELECTOR,
                             [next_start |-> range_start + response_size(context_name)]),
                         start, context_name)}
                ELSE {perpetual_finish(r.m, merged, start, context_name)}
           : r \in _path_request(Selected(m, sel), sel.ranged_paths)}

(* perpetual_path_request, after the login check: the first round *)
perpetual_body(m, paths, context_name, perpetual_range_start) ==
    LET start == range_start_of(perpetual_range_start)
        sel == _set_range_selector(paths, start, start + MAX_PATH_REQUEST_SIZE)
    IN
    UNION {IF r.exc # "none" THEN {r}
           ELSE IF r.val.v.keys = 0 THEN {perpetual_finish(r.m, EmptyDict, start, context_name)}
           ELSE LET merged == merge_dicts(r.val.v, EmptyDict) IN
                IF r.val.v.count >= response_size(context_name)
                THEN perpetual_round1(r.m, sel.paths, start, context_name,
                                      start + response_size(context_name), merged)
                ELSE {perpetual_finish(r.m, merged, start, context_name)}
           : r \in _path_request(Selected(m, sel), sel.ranged_paths)}

perpetual_path_request(m, paths, context_name, perpetual_range_start) ==
    UNION {IF c.exc # "none" THEN {c}
           ELSE perpetual_body(c.m, paths, context_name, perpetual_range_start)
           : c \in needs_login(m)}

----------------------------------------------------------------------------
(* The state machine *)
MaxStart == 1
Starts == {<<>>} \cup {<<n>> : n \in 0..MaxStart}
Contexts == {"genres", "mylist"}
GetComponents == {"browse", "metadata"}
PostComponents == {"update_my_list"}

NoOp == [name |-> "none"]
NoThreads == <<>>
NoResult == [exc |-> "none", val |-> NoneV]

(* The last response the transport received during a call *)
LastResponse(l) ==
    l[CHOOSE i \in DOMAIN l :
        l[i].ev = "response" /\ \A j \in (i + 1)..Len(l) : l[j].ev # "response"].r

(* The session object and the stores it uses, at the start of a call *)
Self ==
    [session_data |-> session_data, guid |-> guid, cookies |-> cookies,
     store |-> store, creds |-> creds, esn |-> esn, log |-> <<>>]

(* One outcome of a call becomes the next state *)
Install(o, call, next_phase) ==
    /\ session_data' = o.m.session_data
    /\ guid' = o.m.guid
    /\ cookies' = o.m.cookies
    /\ store' = o.m.store
    /\ creds' = o.m.creds
    /\ esn' = o.m.esn
    /\ log' = o.m.log
    /\ op' = call
    /\ result' = [exc |-> o.exc, val |-> o.val]
    /\ phase' = next_phase
    /\ UNCHANGED <<prev, threads>>

(* State inside __init__, after _init_session: what is on disk is what an  *)
(* earlier run may have left.                                              *)
Init ==
    /\ phase = "constructing"
    /\ session_data = EmptyDict
    /\ guid = NoGuid
    /\ cookies = {}
    /\ creds \in {NoCreds} \cup Accounts
    /\ store \in {EmptyDict} \cup {Put(EmptyDict, account_hash(a), j) : a \in Accounts, j \in SUBSET Cookies}
    /\ esn \in {NoEsn} \cup Esns
    /\ log = <<>>
    /\ op = NoOp
    /\ result = NoResult
    /\ prev = NoOp
    /\ threads = NoThreads

(* __init__, from _prefetch_login on: an exception that leaves it leaves   *)
(* no session object.                                                      *)
Construct ==
    /\ phase = "constructing"
    /\ \E o \in _prefetch_login(Self) :
        Install(o, [name |-> "__init__"], IF o.exc = "none" THEN "returned" ELSE "crashed")

(* The result of a call has gone back to its caller: the session waits     *)
(* for the next call.                                                      *)
return_call ==
    /\ phase = "returned"
    /\ phase' = "ready"
    /\ log' = <<>>
    /\ op' = NoOp
    /\ result' = NoResult
    /\ prev' = IF op.name = "login" /\ result.exc = "none"
               THEN [name |-> "login", doc |-> LastResponse(log).body.page.doc,
                     cookies |-> cookies]
               ELSE NoOp
    /\ UNCHANGED <<session_data, guid, cookies, store, creds, esn, threads>>

(* The host stores credentials (asked from the user) *)
set_credentials ==
    /\ phase = "ready"
    /\ \E a \in Accounts : creds # a /\ creds' = a
    /\ prev' = NoOp
    /\ UNCHANGED <<phase, session_data, guid, cookies, store, esn, log, op, result, threads>>

Login ==
    /\ phase = "ready"
    /\ \E o \in _login(Self) : Install(o, [name |-> "login"], "returned")

Logout ==
    /\ phase = "ready"
    /\ \E o \in logout(Self) : Install(o, [name |-> "logout"], "returned")

ListProfiles ==
    /\ phase = "ready"
    /\ \E o \in list_profiles(Self) : Install(o, [name |-> "list_profiles"], "returned")

ActivateProfile ==
    /\ phase = "ready"
    /\ \E g \in Guids : \E o \in activate_profile(Self, g) :
        Install(o, [name |-> "activate_profile", guid |-> g], "returned")

PathRequest ==
    /\ phase = "ready"
    /\ \E paths \in PathTemplates : \E o \in path_request(Self, paths) :
        Install(o, [name |-> "path_request", paths |-> paths], "returned")

PerpetualPathRequest ==
    /\ phase = "ready"
    /\ \E paths \in PathTemplates, c \in Contexts, s \in Starts :
        \E o \in perpetual_path_request(Self, paths, c, s) :
            Install(o, [name |-> "perpetual_path_request", paths |-> paths,
                        context_name |-> c, perpetual_range_start |-> s], "returned")

Get ==
    /\ phase = "ready"
    /\ \E c \in GetComponents : \E o \in get(Self, c) :
        Install(o, [name |-> "get", component |-> c], "returned")

Post ==
    /\ phase = "ready"
    /\ \E c \in PostComponents : \E o \in post(Self, c) :
        Install(o, [name |-> "post", component |-> c], "returned")

Next ==
    \/ Construct
    \/ return_call
    \/ set_credentials
    \/ Login
    \/ Logout
    \/ ListProfiles
    \/ ActivateProfile
    \/ PathRequest
    \/ PerpetualPathRequest
    \/ Get
    \/ Post

Spec == Init /\ [][Next]_vars

----------------------------------------------------------------------------
(* Reading auth_url on arbitrary (partial) SessionData *)
Restrict(d, K) == [k \in K |-> d[k]]
PartialDocs ==
    {Restrict(d, K) : d \in SessionDocs \cup {[x EXCEPT !.user_data = EmptyDict] : x \in SessionDocs},
                      K \in SUBSET SessionKeys}

InitAuth ==
    /\ phase = "ready"
    /\ session_data \in PartialDocs
    /\ guid = NoGuid
    /\ cookies = {}
    /\ creds = NoCreds
    /\ store = EmptyDict
    /\ esn = NoEsn
    /\ log = <<>>
    /\ op = NoOp
    /\ result = NoResult
    /\ prev = NoOp
    /\ threads = NoThreads

read_auth_url ==
    /\ phase = "ready"
    /\ Install(auth_url(Self), [name |-> "auth_url"], "returned")

NextAuth == read_auth_url

SpecAuth == InitAuth /\ [][NextAuth]_vars

----------------------------------------------------------------------------
(* Paging through a list: perpetual_path_request on a session a login has  *)
(* left, each call either a fresh one or the continuation of the call      *)
(* before it at the next_start that call returned.                         *)
MaxOffset == MaxStart + number_of_requests * (MAX_PATH_REQUEST_SIZE + 2)

InitPage ==
    /\ phase = "ready"
    /\ session_data \in SessionDocs
    /\ guid = session_data.active_profile
    /\ cookies \in {{}, Cookies}
    /\ creds \in Accounts
    /\ store = Put(EmptyDict, account_hash(creds), Cookies)
    /\ esn = session_data.esn
    /\ log = <<>>
    /\ op = NoOp
    /\ result = NoResult
    /\ prev = NoOp
    /\ threads = NoThreads

(* The caller continues at the next_start of the result it got *)
PerpetualFollowUp ==
    /\ phase = "ready"
    /\ prev.name = "perpetual_path_request"
    /\ prev.next_start <= MaxOffset
    /\ \E o \in perpetual_path_request(Self, prev.paths, prev.context_name, <<prev.next_start>>) :
        Install(o, [name |-> "perpetual_path_request", paths |-> prev.paths,
                    context_name |-> prev.context_name,
                    perpetual_range_start |-> <<prev.next_start>>], "returned")

(* The result has gone back to the caller, who keeps its cursor *)
return_perpetual ==
    /\ phase = "returned"
    /\ phase' = "ready"
    /\ log' = <<>>
    /\ op' = NoOp
    /\ result' = NoResult
    /\ prev' = IF /\ result.exc = "none"
                  /\ SELECTOR \in DOMAIN result.val.d
                  /\ "next_start" \in DOMAIN result.val.d[SELECTOR]
               THEN [name |-> "perpetual_path_request", paths |-> op.paths,
                     context_name |-> op.context_name,
                     start |-> range_start_of(op.perpetual_range_start),
                     next_start |-> result.val.d[SELECTOR].next_start]
               ELSE NoOp
    /\ UNCHANGED <<session_data, guid, cookies, store, creds, esn, threads>>

NextPage ==
    \/ PerpetualPathRequest
    \/ PerpetualFollowUp
    \/ return_perpetual

SpecPage == InitPage /\ [][NextPage]_vars

----------------------------------------------------------------------------
(* Host threads replacing SessionData at the same time.  The setter takes  *)
(* no lock, so a thread can be switched out between any two of its        *)
(* statements: the assignment of _session_data, headers.update with the    *)
(* active_profile of the new document, cookies.save and _update_esn.  The  *)
(* host either serializes the operations (op.serialized) or does not.      *)
Threads == {"t1", "t2"}
IdleThread == [pc |-> "idle", new |-> EmptyDict]
Inside(t) == threads[t].pc # "idle"

InitConc ==
    /\ phase = "ready"
    /\ session_data \in SessionDocs
    /\ guid = session_data.active_profile
    /\ cookies = Cookies
    /\ creds \in Accounts
    /\ store = Put(EmptyDict, account_hash(creds), Cookies)
    /\ esn = session_data.esn
    /\ log = <<>>
    /\ op \in {[name |-> "host", serialized |-> b] : b \in BOOLEAN}
    /\ result = NoResult
    /\ prev = NoOp
    /\ threads = [t \in Threads |-> IdleThread]

(* login, _refresh_session_data (alone or inside activate_profile) has     *)
(* extracted a document and enters the setter with it                      *)
setter_enter(t) ==
    /\ ~Inside(t)
    /\ op.serialized => \A u \in Threads : ~Inside(u)
    /\ \E d \in SessionDocs :
        threads' = [threads EXCEPT ![t] = [pc |-> "assign", new |-> d]]
    /\ UNCHANGED <<phase, session_data, guid, cookies, store, creds, esn, log, op, result, prev>>

(* self._session_data = new_session_data *)
setter_assign(t) ==
    /\ threads[t].pc = "assign"
    /\ session_data' = threads[t].new
    /\ threads' = [threads EXCEPT ![t].pc = "update"]
    /\ UNCHANGED <<phase, guid, cookies, store, creds, esn, log, op, result, prev>>

(* mutant: the request header is left as it was *)
setter_write_guid_skipped(t) ==
    /\ threads[t].pc = "update"
    /\ threads' = [threads EXCEPT ![t].pc = "save"]
    /\ UNCHANGED <<phase, session_data, guid, cookies, store, creds, esn, log, op, result, prev>>

(* self.session.headers.update({guid header: new_session_data['active_profile']}) *)
setter_write_guid(t) ==
    /\ threads[t].pc = "update"
    /\ guid' = threads[t].new.active_profile
    /\ threads' = [threads EXCEPT ![t].pc = "save"]
    /\ UNCHANGED <<phase, session_data, cookies, store, creds, esn, log, op, result, prev>>

(* cookies.save(self.account_hash, self.session.cookies): it returns, or   *)
(* raises and the thread leaves the setter                                 *)
setter_save(t) ==
    /\ threads[t].pc = "save"
    /\ \/ /\ store' = Put(store, account_hash(creds), cookies)
          /\ threads' = [threads EXCEPT ![t].pc = "esn"]
       \/ /\ store' = store
          /\ threads' = [threads EXCEPT ![t] = IdleThread]
    /\ UNCHANGED <<phase, session_data, guid, cookies, creds, esn, log, op, result, prev>>

(* _update_esn(self.session_data['esn']) *)
setter_update_esn(t) ==
    /\ threads[t].pc = "esn"
    /\ esn' = session_data.esn
    /\ threads' = [threads EXCEPT ![t] = IdleThread]
    /\ UNCHANGED <<phase, session_data, guid, cookies, store, creds, log, op, result, prev>>

NextConc ==
    \E t \in Threads :
        \/ setter_enter(t)
        \/ setter_assign(t)
        \/ setter_write_guid(t)
        \/ setter_save(t)
        \/ setter_update_esn(t)

SpecConc == InitConc /\ [][NextConc]_vars

----------------------------------------------------------------------------
(* Reading the log of a call *)
IsRequest(e) == e.ev \in {"GET", "POST"}
Requests(l) == {i \in DOMAIN l : IsRequest(l[i])}
RefreshCalls(l) == {i \in DOMAIN l : l[i].ev = "_refresh_session_data" /\ l[i].at = "call"}
RefreshReturns(l) == {i \in DOMAIN l : l[i].ev = "_refresh_session_data" /\ l[i].at = "return"}
HasCheck(l) == \E i \in DOMAIN l : l[i].ev = "_is_logged_in"
CheckIndex(l) == CHOOSE i \in DOMAIN l : l[i].ev = "_is_logged_in"
LoadedOk(l) == \E i \in DOMAIN l : l[i].ev = "load_cookies" /\ l[i].ok
RefreshedOk(l) == \E i \in RefreshReturns(l) : l[i].ret
Guarded ==
    {"list_profiles", "activate_profile", "path_request", "perpetual_path_request",
     "get", "post"}
AllKeys(sd) == SessionKeys \subseteq DOMAIN sd /\ "authURL" \in DOMAIN sd.user_data

----------------------------------------------------------------------------
(* C1: when the login check of a guarded operation (list_profiles,         *)
(* activate_profile, path_request, perpetual_path_request, get, post) is   *)
(* false, the call fails with NotLoggedInError and nothing is requested    *)
(* after the check: the operation's own GET/POST is never issued.          *)
C1_NeedsLogin ==
    (phase = "returned" /\ op.name \in Guarded) =>
        \A i \in DOMAIN log :
            (log[i].ev = "_is_logged_in" /\ ~log[i].ret) =>
                /\ result.exc = "NotLoggedInError"
                /\ \A j \in (i + 1)..Len(log) : ~IsRequest(log[j])

C1_Witness ==
    /\ phase = "returned"
    /\ op.name = "path_request"
    /\ result.exc = "NotLoggedInError"
    /\ HasCheck(log) /\ ~log[CheckIndex(log)].ret
    /\ RefreshCalls(log) # {}

(* C2: between operations, a session that passes the login check (its jar  *)
(* holds cookies) has SessionData with all five keys and an authURL.        *)
C2_LoggedInHasAllKeys ==
    (phase = "ready" /\ cookies # {}) => AllKeys(session_data)

(* C3: the login check is true without any cookie store or network access  *)
(* when the jar holds cookies; with an empty jar it is true exactly when    *)
(* loading the stored cookies succeeded and the refresh after it succeeded, *)
(* and no refresh (no request) is made when the load failed.                *)
C3_IsLoggedIn ==
    [][(phase \in {"ready", "constructing"} /\ HasCheck(log')) =>
        LET k == CheckIndex(log')
            before == SubSeq(log', 1, k - 1)
        IN  IF cookies # {}
            THEN log'[k].ret /\ before = <<>>
            ELSE /\ log'[k].ret = (LoadedOk(before) /\ RefreshedOk(before))
                 /\ ~LoadedOk(before) => (RefreshCalls(before) = {} /\ Requests(before) = {})
                 /\ LoadedOk(before) => Cardinality(RefreshCalls(before)) = 1]_vars

C3_Witness ==
    /\ phase = "returned"
    /\ op.name = "list_profiles"
    /\ HasCheck(log) /\ log[CheckIndex(log)].ret
    /\ LoadedOk(log) /\ RefreshedOk(log)

(* C4: _refresh_session_data never raises (every refresh that started has  *)
(* returned); a refresh in which the fetch, the extraction or the install   *)
(* of the new SessionData failed returned False; after a refresh that       *)
(* returned False, and after a login check that was false, the jar is empty *)
(* (as long as no later response of the same call refilled it).             *)
FailedBetween(l, c, r) ==
    \E i \in (c + 1)..(r - 1) :
        \/ l[i].ev = "response" /\ l[i].r.st # "ok"
        \/ l[i].ev = "response" /\ l[i].r.st = "ok" /\ l[i].r.body.page.kind # "session"
        \/ l[i].ev = "save_cookies" /\ ~l[i].ok
ReturnOf(l, c) == CHOOSE r \in RefreshReturns(l) : r > c /\ \A x \in RefreshReturns(l) : x > c => r <= x
NoResponseAfter(l, i) == \A j \in (i + 1)..Len(l) : l[j].ev # "response"

C4_RefreshNeverRaises ==
    (phase \in {"returned", "crashed"}) =>
        /\ \A c \in RefreshCalls(log) :
            /\ \E r \in RefreshReturns(log) : r > c
            /\ FailedBetween(log, c, ReturnOf(log, c)) => ~log[ReturnOf(log, c)].ret
        /\ \A r \in RefreshReturns(log) :
            (~log[r].ret /\ NoResponseAfter(log, r)) => cookies = {}
        /\ \A i \in DOMAIN log :
            (log[i].ev = "_is_logged_in" /\ ~log[i].ret /\ NoResponseAfter(log, i)) => cookies = {}

C4_Witness ==
    /\ phase = "returned"
    /\ op.name = "activate_profile"
    /\ result.exc = "none"
    /\ \E r \in RefreshReturns(log) :
        /\ ~log[r].ret /\ NoResponseAfter(log, r)
        /\ \E i \in 1..(r - 1) : log[i].ev = "save_cookies" /\ ~log[i].ok
    /\ cookies = {}

(* C5: whenever login() does not complete, the jar is empty afterwards and  *)
(* the error the caller gets is LoginFailedError.                           *)
C5_LoginFailureClears ==
    (phase = "returned" /\ op.name = "login" /\ result.exc # "none") =>
        (cookies = {} /\ result.exc = "LoginFailedError")

(* C6: after logout() on a logged-in session the stored cookies of the      *)
(* account are deleted, the credentials purged and the session is           *)
(* reinitialized (empty jar, empty SessionData), whether or not the GET to  *)
(* the logout endpoint succeeded.                                           *)
C6_LogoutResets ==
    [][(phase = "ready" /\ cookies # {} /\ AllKeys(session_data) /\ op'.name = "logout") =>
        /\ account_hash(creds) \notin DOMAIN store'
        /\ creds' = NoCreds
        /\ cookies' = {}
        /\ session_data' = EmptyDict]_vars

SwitchOk(r) ==
    /\ r.st = "ok"
    /\ r.body.raw # "badjson"
    /\ ~(r.body.raw = "json" /\ "status" \in DOMAIN r.body.json /\ r.body.json.status = "error")

C9_AuthURLNeedsAllKeys ==
    (op.name = "auth_url" /\ ~(SessionKeys \subseteq DOMAIN session_data)) =>
        result.exc = "InvalidAuthURLError"

(* C9 amended: reading auth_url fails with InvalidAuthURLError exactly     *)
(* when SessionData lacks user_data or its user_data lacks authURL; a       *)
(* SessionData lacking only other keys yields its authURL.                  *)
C9_AuthURLAmended ==
    (op.name = "auth_url") =>
        IF "user_data" \in DOMAIN session_data /\ "authURL" \in DOMAIN session_data.user_data
        THEN result = [exc |-> "none", val |-> [t |-> "str", s |-> session_data.user_data.authURL]]
        ELSE result.exc = "InvalidAuthURLError"

C9_Witness ==
    /\ op.name = "auth_url"
    /\ DOMAIN session_data = {"user_data"}
    /\ result.exc = "none"

(* C10: path_request issues exactly one POST and ends in one of three      *)
(* ways: APIError with the provider message when the decoded response has   *)
(* status "error"; the transport, HTTP or decode error when the request or  *)
(* the decoding failed; in every other case (an empty body, an envelope     *)
(* without the error status) the value subtree of the response.             *)
C10_PathRequestOutcomes ==
    (phase = "returned" /\ op.name = "path_request" /\ AllKeys(session_data)
            /\ HasCheck(log) /\ log[CheckIndex(log)].ret) =>
        LET body == SubSeq(log, CheckIndex(log) + 1, Len(log))
            r == LastResponse(body)
        IN  /\ Cardinality(Requests(body)) = 1
            /\ body[1].ev = "POST" /\ body[1].c = "shakti"
            /\ IF r.st = "fail" THEN result.exc = "ConnectionError"
               ELSE IF r.st = "http" THEN result.exc = "HTTPError"
               ELSE IF r.body.raw = "badjson" THEN result.exc = "ValueError"
               ELSE IF r.body.raw = "json" /\ "status" \in DOMAIN r.body.json
                       /\ r.body.json.status = "error"
               THEN result = [exc |-> "APIError",
                              val |-> [t |-> "message", message |-> r.body.json.message]]
               ELSE /\ result.exc = "none"
                    /\ result.val.t = "value"
                    /\ (r.body.raw = "json" /\ "value" \in DOMAIN r.body.json)
                            => result.val.v = r.body.json.value

----------------------------------------------------------------------------
(* Reading the log of a perpetual_path_request *)
IsShaktiPost(e) == e.ev = "POST" /\ e.c = "shakti"
IsShaktiResponse(e) == e.ev = "response" /\ e.c = "shakti"
Posts(l) == SelectSeq(l, IsShaktiPost)
Answers(l) == SelectSeq(l, IsShaktiResponse)
Copies(l) == {i \in DOMAIN l : l[i].ev = "_set_range_selector"}

(* The response carried a value subtree *)
HasValue(e) ==
    e.r.st = "ok" /\ e.r.body.raw = "json" /\ "value" \in DOMAIN e.r.body.json
(* The round's response was empty / held at least T items *)
EmptyRound(e) == HasValue(e) /\ e.r.body.json.value.keys = 0
FullRound(e, T) ==
    HasValue(e) /\ e.r.body.json.value.keys > 0 /\ e.r.body.json.value.count >= T
BothRoundsFull(l, T) ==
    Len(Answers(l)) = 2 /\ FullRound(Answers(l)[1], T) /\ FullRound(Answers(l)[2], T)

(* The window a request carries in its first path *)
Window(e) ==
    LET path == e.data.paths[1] IN
    path[CHOOSE i \in DOMAIN path : "from" \in DOMAIN path[i]]
(* The templates with every placeholder replaced by the window w *)
Substituted(templates, w) ==
    [p \in DOMAIN templates |->
        [i \in DOMAIN templates[p] |->
            IF templates[p][i] = RANGE_SELECTOR THEN w ELSE templates[p][i]]]

(* responseSizeThreshold and startOffset of the call *)
Threshold(context_name) ==
    IF context_name = "genres" THEN MAX_PATH_REQUEST_SIZE + 2 ELSE MAX_PATH_REQUEST_SIZE + 1
StartOffset(call) ==
    IF call.perpetual_range_start = <<>> THEN 0 ELSE call.perpetual_range_start[1]
Completed == phase = "returned" /\ op.name = "perpetual_path_request" /\ result.exc = "none"
Has(d, k) == SELECTOR \in DOMAIN d /\ k \in DOMAIN d[SELECTOR]

(* C11: with T the threshold of the context, a completed call started at s *)
(* in which both rounds returned at least T items carries next_start =      *)
(* s + 2*T, and a completed call that continues the call before it at that  *)
(* call's next_start carries previous_start = the start of that call.       *)
C11_CursorRoundTrip ==
    Completed =>
        LET T == Threshold(op.context_name)
            s == StartOffset(op)
            d == result.val.d
        IN  /\ BothRoundsFull(log, T) =>
                (Has(d, "next_start") /\ d[SELECTOR].next_start = s + 2 * T)
            /\ (prev.name = "perpetual_path_request"
                    /\ op.perpetual_range_start = <<prev.next_start>>
                    /\ op.context_name = prev.context_name) =>
                (Has(d, "previous_start") /\ d[SELECTOR].previous_start = prev.start)

C11_Witness ==
    /\ Completed
    /\ prev.name = "perpetual_path_request"
    /\ prev.start = 1
    /\ op.perpetual_range_start = <<prev.next_start>>
    /\ BothRoundsFull(log, Threshold(op.context_name))
    /\ result.val.d[SELECTOR].previous_start = 1

(* C12 as stated: whenever the first round's response is empty, for any     *)
(* start offset, the result has no _perpetual_range_selector key and no      *)
(* second request was made.                                                  *)
C12_EmptyFirstRoundNoCursor ==
    (Completed /\ EmptyRound(Answers(log)[1])) =>
        (SELECTOR \notin DOMAIN result.val.d /\ Len(Posts(log)) = 1)

(* C12 amended: whenever the first round's response is empty no second      *)
(* request is made and the result holds no item and no next_start; it has    *)
(* no _perpetual_range_selector key at all when the start offset is 0 or     *)
(* absent, and for a start offset s > 0 its only key is the selector, which  *)
(* holds previous_start = s - 2*T and nothing else.                          *)
C12_EmptyFirstRoundAmended ==
    (Completed /\ EmptyRound(Answers(log)[1])) =>
        /\ Len(Posts(log)) = 1
        /\ result.val.d =
            IF StartOffset(op) > 0
            THEN Put(EmptyDict, SELECTOR,
                     [previous_start |-> StartOffset(op) - 2 * Threshold(op.context_name)])
            ELSE EmptyDict

C12_Witness ==
    /\ Completed
    /\ EmptyRound(Answers(log)[1])
    /\ StartOffset(op) > 0
    /\ Has(result.val.d, "previous_start")

(* C13: the result of a completed call carries previous_start if and only   *)
(* if the start offset is > 0, and then previous_start = startOffset - 2*T;  *)
(* the next_start the rounds have set (both rounds full) stays next to it.   *)
C13_PreviousStart ==
    Completed =>
        LET T == Threshold(op.context_name)
            s == StartOffset(op)
            d == result.val.d
        IN  /\ Has(d, "previous_start") <=> s > 0
            /\ s > 0 => d[SELECTOR].previous_start = s - 2 * T
            /\ BothRoundsFull(log, T) =>
                (Has(d, "next_start") /\ d[SELECTOR].next_start = s + 2 * T)

C13_Witness ==
    /\ Completed
    /\ StartOffset(op) > 0
    /\ Has(result.val.d, "previous_start")
    /\ Has(result.val.d, "next_start")

(* C14: the threshold is requestSize + 1 for every context but "genres" and *)
(* requestSize + 2 for "genres": a first round continues to a second         *)
(* request exactly when it returned at least that many items (with "genres", *)
(* requestSize + 1 items stop and requestSize + 2 continue), and the window  *)
(* shift, next_start and previous_start all use that threshold.              *)
C14_Threshold ==
    Completed =>
        LET T == IF op.context_name = "genres"
                 THEN MAX_PATH_REQUEST_SIZE + 2 ELSE MAX_PATH_REQUEST_SIZE + 1
            s == StartOffset(op)
            d == result.val.d
            first == Answers(log)[1].r.body.json.value
        IN  /\ Len(Posts(log)) = 2 <=> (first.keys > 0 /\ first.count >= T)
            /\ Len(Posts(log)) = 2 =>
                Window(Posts(log)[2]) = [from |-> s + T, to |-> s + T + MAX_PATH_REQUEST_SIZE]
            /\ Has(d, "next_start") => d[SELECTOR].next_start = s + 2 * T
            /\ Has(d, "previous_start") => d[SELECTOR].previous_start = s - 2 * T

C14_Witness ==
    /\ Completed
    /\ op.context_name = "genres"
    /\ Answers(log)[1].r.body.json.value.count = MAX_PATH_REQUEST_SIZE + 2
    /\ Len(Posts(log)) = 2
    /\ Has(result.val.d, "next_start")

(* C15: after perpetual_path_request, whatever its outcome and the number   *)
(* of its rounds, the caller's path templates are what they were before the  *)
(* call (every placeholder still in place), and the request of each round    *)
(* is the original templates with only the placeholder replaced by the       *)
(* window {from, to} of the round.                                           *)
C15_TemplatesUntouched ==
    (phase = "returned" /\ op.name = "perpetual_path_request") =>
        /\ \A i \in Copies(log) : log[i].paths = op.paths
        /\ \A k \in DOMAIN Posts(log) :
            LET T == Threshold(op.context_name)
                from == StartOffset(op) + (k - 1) * T
            IN  Posts(log)[k].data.paths =
                    Substituted(op.paths, [from |-> from, to |-> from + MAX_PATH_REQUEST_SIZE])

C15_Witness ==
    /\ Completed
    /\ Len(op.paths) = 2
    /\ Len(Posts(log)) = 2
    /\ Cardinality(Copies(log)) = 2
    /\ \A i \in Copies(log) : \E p \in DOMAIN log[i].paths, j \in 1..3 :
            log[i].paths[p][j] = RANGE_SELECTOR

(* C16: replacing SessionData is one transactional step: when the one       *)
(* attempt of a call to set SessionData fails at persisting the cookie jar,  *)
(* SessionData and the guid request header are what they were before.        *)
SaveEvents(l) == {i \in DOMAIN l : l[i].ev = "save_cookies"}
C16_SetterTransactional ==
    [][(phase = "ready"
            /\ Cardinality(SaveEvents(log')) = 1
            /\ \A i \in SaveEvents(log') : ~log'[i].ok) =>
        (session_data' = session_data /\ guid' = guid)]_vars

(* C18: without serialization, two threads replacing SessionData reach a    *)
(* state, both out of the setter, in which the guid request header is not    *)
(* the active_profile of the SessionData stored (C18_Witness); when the      *)
(* host serializes the operations, whenever no replacement is in progress    *)
(* the guid header equals SessionData.active_profile.                        *)
C18_SerializedConsistent ==
    (op.name = "host" /\ op.serialized) =>
        /\ Cardinality({t \in Threads : Inside(t)}) <= 1
        /\ (\A t \in Threads : ~Inside(t)) => guid = session_data.active_profile

C18_Witness ==
    /\ op.name = "host" /\ ~op.serialized
    /\ \A t \in Threads : ~Inside(t)
    /\ guid # session_data.active_profile
    /\ account_hash(creds) \in DOMAIN store

(* C19: whenever activate_profile(guid) returns True (the provider, when    *)
(* the refresh after the switch got its page, showing guid as the active     *)
(* profile), SessionData.active_profile and the guid request header equal    *)
(* guid, also when that refresh failed.                                      *)
C19_ActivateTrueMeansSwitched ==
    (phase = "returned" /\ op.name = "activate_profile"
            /\ result = [exc |-> "none", val |-> TrueV]
            /\ ((LastResponse(log).st = "ok" /\ LastResponse(log).body.page.kind = "session")
                    => LastResponse(log).body.page.doc.active_profile = op.guid)) =>
        /\ "active_profile" \in DOMAIN session_data
        /\ session_data.active_profile = op.guid
        /\ guid = op.guid

(* C17: a call that has passed the login check issues one or two path      *)
(* requests; the second is issued exactly when the first response was not    *)
(* empty and that response alone counted at least T items, and its window    *)
(* is [startOffset + T, startOffset + T + requestSize]; a completed call     *)
(* carries next_start if and only if both rounds returned at least T items.  *)
C17_TwoRounds ==
    (phase = "returned" /\ op.name = "perpetual_path_request"
            /\ HasCheck(log) /\ log[CheckIndex(log)].ret) =>
        LET T == Threshold(op.context_name)
            s == StartOffset(op)
            n == Len(Posts(log))
        IN  /\ n \in {1, 2}
            /\ Len(Answers(log)) = n
            /\ n = 2 <=> FullRound(Answers(log)[1], T)
            /\ n = 2 =>
                Window(Posts(log)[2]) = [from |-> s + T, to |-> s + T + MAX_PATH_REQUEST_SIZE]
            /\ result.exc = "none" =>
                (Has(result.val.d, "next_start") <=> BothRoundsFull(log, T))

C17_Witness ==
    /\ Completed
    /\ Len(Posts(log)) = 2
    /\ ~EmptyRound(Answers(log)[2])
    /\ Answers(log)[2].r.body.json.value.count < Threshold(op.context_name)
    /\ Answers(log)[1].r.body.json.value.count + Answers(log)[2].r.body.json.value.count
            >= Threshold(op.context_name)
    /\ ~Has(result.val.d, "next_start")

----------------------------------------------------------------------------
(* Walking a whole list: a static backend holds the items 0..items-1 and   *)
(* answers a window {from, to} with the items whose index lies in it; the   *)
(* caller starts at 0 and calls again at every next_start it gets.          *)
MaxItems == 9

(* Number of items the backend holds in the window w *)
Served(w, items) == Cardinality({i \in w.from..w.to : i < items})

(* Every path request of the log got the backend's answer *)
StaticBackend(l, items) ==
    \A i \in DOMAIN l :
        IsShaktiPost(l[i]) =>
            /\ HasValue(l[i + 1])
            /\ DOMAIN l[i + 1].r.body.json = {"value"}
            /\ l[i + 1].r.body.json.value.count = Served(Window(l[i]), items)
            /\ l[i + 1].r.body.json.value.count > 0 => l[i + 1].r.body.json.value.keys > 0

InitWalk ==
    /\ phase = "ready"
    /\ session_data \in SessionDocs
    /\ guid = session_data.active_profile
    /\ cookies = Cookies
    /\ creds \in Accounts
    /\ store = Put(EmptyDict, account_hash(creds), Cookies)
    /\ esn = session_data.esn
    /\ log = <<>>
    /\ op = NoOp
    /\ result = NoResult
    /\ prev \in {[name |-> "walk", items |-> n, paths |-> p, windows |-> <<>>, next |-> <<0>>]
                 : n \in 0..MaxItems, p \in PathTemplates}
    /\ threads = NoThreads

(* The caller asks for the next part of the list *)
walk_call ==
    /\ phase = "ready"
    /\ prev.next # <<>>
    /\ \E o \in perpetual_path_request(Self, prev.paths, "mylist", prev.next) :
        /\ StaticBackend(o.m.log, prev.items)
        /\ Install(o, [name |-> "perpetual_path_request", paths |-> prev.paths,
                       context_name |-> "mylist", perpetual_range_start |-> prev.next],
                   "returned")

(* The caller has the result: the windows it was served and the cursor *)
walk_return ==
    /\ phase = "returned"
    /\ phase' = "ready"
    /\ log' = <<>>
    /\ op' = NoOp
    /\ result' = NoResult
    /\ prev' = [prev EXCEPT
                  !.windows = @ \o [k \in DOMAIN Posts(log) |-> Window(Posts(log)[k])],
                  !.next = IF result.exc = "none" /\ Has(result.val.d, "next_start")
                           THEN <<result.val.d[SELECTOR].next_start>> ELSE <<>>]
    /\ UNCHANGED <<session_data, guid, cookies, store, creds, esn, threads>>

NextWalk ==
    \/ walk_call
    \/ walk_return

SpecWalk == InitWalk /\ [][NextWalk]_vars

(* C20: against the static backend (context other than "genres"), starting *)
(* at 0 and following next_start: the windows requested, within a call and   *)
(* across calls, follow each other without overlap or gap from index 0 on;   *)
(* every window but the last one requested lies inside the list, so the      *)
(* walk goes on only while items remain; and once no next_start is emitted   *)
(* every index 0..items-1 lies in exactly one window.                        *)
C20_WalkCoversList ==
    (prev.name = "walk" /\ phase = "ready") =>
        LET w == prev.windows IN
        /\ \A i \in DOMAIN w :
            /\ w[i].from = (IF i = 1 THEN 0 ELSE w[i - 1].to + 1)
            /\ w[i].to >= w[i].from
            /\ i < Len(w) => w[i].to <= prev.items - 1
        /\ (prev.next # <<>> /\ w # <<>>) => prev.next = <<w[Len(w)].to + 1>>
        /\ (prev.next = <<>>) =>
            \A k \in 0..(prev.items - 1) :
                Cardinality({i \in DOMAIN w : w[i].from <= k /\ k <= w[i].to}) = 1

C20_Witness ==
    /\ prev.name = "walk" /\ phase = "ready"
    /\ prev.next = <<>>
    /\ prev.items >= 2 * number_of_requests
    /\ Len(prev.windows) > number_of_requests

====
